---- MODULE Spec2Model ----
(***************************************************************************)
(* Model of minimal_swiglu.cpp: main() builds the SwiGLU graph through the *)
(* engine's C API, compiles it into a runtime, reshapes, binds, invokes,   *)
(* prints the output and tears everything down.  Every engine call is one  *)
(* step; the status it returns is chosen nondeterministically.             *)
(***************************************************************************)
EXTENDS Integers, Sequences, FiniteSets, TLC

VARIABLES
  pc,            \* call site main is about to execute, "exit" once returned
  status,        \* the local `status` of main
  exit_code,     \* value returned by main, Running before it returns
  stderr,        \* diagnostics written with fprintf(stderr, ...)
  stdout,        \* lines written with printf
  calls,         \* engine calls issued so far, in order, with their status
  initialized,   \* engine-global state set by xnn_initialize
  subgraph,      \* handle `subgraph`     : "NULL", "live", "deleted"
  xnn_workspace, \* handle `xnn_workspace`: "uninit", "live", "released"
  runtime,       \* handle `runtime`      : "uninit", "live", "deleted"
  num_values,    \* number of value ids allocated in the subgraph
  values,        \* value id -> tensor value defined in the subgraph
  nodes,         \* operator nodes of the subgraph, in definition order
  ids,           \* the uint32_t id variables of main
  shape,         \* value id -> current shape held by the runtime
  ext_dims,      \* external id -> shape given to xnn_reshape_external_value
  planned,       \* xnn_reshape_runtime succeeded
  bound,         \* external ids bound to a buffer by xnn_setup_runtime_v2
  output_data,   \* float output_data[BATCH_SIZE * OUTPUT_DIM]
  input_dim, inter_dim, output_dim, batch_size

vars == <<pc, status, exit_code, stderr, stdout, calls, initialized, subgraph,
          xnn_workspace, runtime, num_values, values, nodes, ids, shape,
          ext_dims, planned, bound, output_data,
          input_dim, inter_dim, output_dim, batch_size>>

dimVars == <<input_dim, inter_dim, output_dim, batch_size>>

----------------------------------------------------------------------------
(* Program constants *)

INPUT_DIM  == 3
OUTPUT_DIM == 2
INTER_DIM  == 4
BATCH_SIZE == 1

xnn_status_success == 0
\* largest failure status the engine is taken to return
MaxStatus == 6
\* largest dimension explored by the shape specification
MaxDim == 3

FailureStatuses == 1..MaxStatus
Statuses == {xnn_status_success} \cup FailureStatuses

\* UINT32_MAX in the header; written -1 (its 32-bit two's complement reading)
XNN_INVALID_VALUE_ID == 0 - 1
XNN_VALUE_FLAG_EXTERNAL_INPUT  == "XNN_VALUE_FLAG_EXTERNAL_INPUT"
XNN_VALUE_FLAG_EXTERNAL_OUTPUT == "XNN_VALUE_FLAG_EXTERNAL_OUTPUT"
NoFlags == "0"

Running == 0 - 1
NoId    == 0 - 2     \* an id variable that was declared but not yet written
NoArg   == <<>>

IdVars == {"input_id", "output_id", "w1_weight_id", "gate_output_id",
           "w3_weight_id", "up_output_id", "sigmoid_output_id",
           "silu_output_id", "gated_intermediate_output_id", "w2_weight_id"}

----------------------------------------------------------------------------
(* Statement order of main *)

ProgramOrder_invoke_before_setup ==
  <<"initialize", "create_subgraph",
    "define_input", "define_output", "define_w1_weight", "define_gate_output",
    "define_gate_fc", "define_w3_weight", "define_up_output", "define_up_fc",
    "define_sigmoid_output", "define_sigmoid", "define_silu_output",
    "define_silu_mul", "define_gated_output", "define_gated_mul",
    "define_w2_weight", "define_down_fc",
    "create_workspace", "create_runtime",
    "reshape_input", "reshape_output", "reshape_runtime",
    "invoke_runtime", "setup_runtime", "print_output",
    "delete_runtime", "release_workspace", "delete_subgraph", "deinitialize">>

ProgramOrder_release_in_creation_order ==
  <<"initialize", "create_subgraph",
    "define_input", "define_output", "define_w1_weight", "define_gate_output",
    "define_gate_fc", "define_w3_weight", "define_up_output", "define_up_fc",
    "define_sigmoid_output", "define_sigmoid", "define_silu_output",
    "define_silu_mul", "define_gated_output", "define_gated_mul",
    "define_w2_weight", "define_down_fc",
    "create_workspace", "create_runtime",
    "reshape_input", "reshape_output", "reshape_runtime",
    "setup_runtime", "invoke_runtime", "print_output",
    "delete_subgraph", "release_workspace", "delete_runtime", "deinitialize">>

ProgramOrder_print_before_invoke ==
  <<"initialize", "create_subgraph",
    "define_input", "define_output", "define_w1_weight", "define_gate_output",
    "define_gate_fc", "define_w3_weight", "define_up_output", "define_up_fc",
    "define_sigmoid_output", "define_sigmoid", "define_silu_output",
    "define_silu_mul", "define_gated_output", "define_gated_mul",
    "define_w2_weight", "define_down_fc",
    "create_workspace", "create_runtime",
    "reshape_input", "reshape_output", "reshape_runtime",
    "setup_runtime", "print_output", "invoke_runtime",
    "delete_runtime", "release_workspace", "delete_subgraph", "deinitialize">>

ProgramOrder ==
  <<"initialize", "create_subgraph",
    "define_input", "define_output", "define_w1_weight", "define_gate_output",
    "define_gate_fc", "define_w3_weight", "define_up_output", "define_up_fc",
    "define_sigmoid_output", "define_sigmoid", "define_silu_output",
    "define_silu_mul", "define_gated_output", "define_gated_mul",
    "define_w2_weight", "define_down_fc",
    "create_workspace", "create_runtime",
    "reshape_input", "reshape_output", "reshape_runtime",
    "setup_runtime", "invoke_runtime", "print_output",
    "delete_runtime", "release_workspace", "delete_subgraph", "deinitialize">>

\* the statement after `site`, "exit" after the last one
Succ(site) ==
  LET i == CHOOSE k \in 1..Len(ProgramOrder) : ProgramOrder[k] = site
  IN  IF i < Len(ProgramOrder) THEN ProgramOrder[i + 1] ELSE "exit"

----------------------------------------------------------------------------
(* Diagnostics and the status check after each call *)

\* fprintf(stderr, "<fn> failed: %d\n", status)
Diagnostic_without_status(fn, st) ==
  [words |-> <<fn, "failed">>, args |-> NoArg]

Diagnostic(fn, st) ==
  [words |-> <<fn, "failed:", "%d">>, args |-> <<st>>]

\* fprintf(stderr, "Failed to initialize XNNPACK\n")
InitDiagnostic ==
  [words |-> <<"Failed", "to", "initialize", "XNNPACK">>, args |-> NoArg]

\* if (status != xnn_status_success) { fprintf(stderr, ...); return 1; }
CheckStatus_falls_through(msg, st, next) ==
  /\ stderr' = IF st # xnn_status_success THEN Append(stderr, msg) ELSE stderr
  /\ exit_code' = exit_code
  /\ pc' = next

\* ... { fprintf(stderr, ...); goto cleanup; } with an unconditional cleanup
CheckStatus_goto_cleanup(msg, st, next) ==
  IF st # xnn_status_success
    THEN /\ stderr' = Append(stderr, msg)
         /\ exit_code' = exit_code
         /\ pc' = "delete_runtime"
    ELSE /\ pc' = next
         /\ UNCHANGED <<stderr, exit_code>>

CheckStatus(msg, st, next) ==
  IF st # xnn_status_success
    THEN /\ stderr' = Append(stderr, msg)
         /\ exit_code' = 1
         /\ pc' = "exit"
    ELSE /\ pc' = next
         /\ UNCHANGED <<stderr, exit_code>>

\* status = fn(...); followed by the check
Returned(site, fn, st) ==
  /\ status' = st
  /\ calls' = Append(calls, [fn |-> fn, site |-> site, st |-> st])
  /\ CheckStatus(Diagnostic(fn, st), st, Succ(site))

----------------------------------------------------------------------------
(* fp32 arithmetic, carried as fixed point with FracBits fractional bits;  *)
(* every intermediate product is kept below 2^31                           *)

FracBits == 24
One  == 2^FracBits
Half == 2^(FracBits \div 2)

\* a * b for non-negative a, b
MulFx(a, b) ==
  LET a1 == a \div Half
      a0 == a % Half
      b1 == b \div Half
      b0 == b % Half
  IN  a1 * b1 + (a1 * b0) \div Half + (a0 * b1) \div Half + (a0 * b0) \div One

RECURSIVE FracDigits(_, _, _)
\* the first n base-16 digits of r / q, for 0 <= r < q
FracDigits(r, q, n) ==
  IF n = 0 THEN 0
  ELSE LET r16 == r * 16
       IN  (r16 \div q) * 16^(n - 1) + FracDigits(r16 % q, q, n - 1)

\* p / q for p >= 0, q > 0 (both in the same unit)
DivFx(p, q) == (p \div q) * One + FracDigits(p % q, q, FracBits \div 4)

RECURSIVE ExpNegSeries(_, _, _)
\* sum over k >= n of (-r)^k / k!, given term = r^(n-1) / (n-1)!
ExpNegSeries(r, term, n) ==
  IF n > 12 THEN 0
  ELSE LET t == MulFx(term, r) \div n
       IN  (IF n % 2 = 1 THEN 0 - t ELSE t) + ExpNegSeries(r, t, n + 1)

RECURSIVE SquareTimes(_, _)
SquareTimes(x, n) == IF n = 0 THEN x ELSE SquareTimes(MulFx(x, x), n - 1)

\* e^(-g) for g >= 0: the series at g / 16, squared four times
ExpNeg(g) == SquareTimes(One + ExpNegSeries(g \div 16, One, 1), 4)

\* 1 / (1 + e^(-g))
Sigmoid(g) ==
  IF g >= 0 THEN DivFx(One, One + ExpNeg(g))
            ELSE One - DivFx(One, One + ExpNeg(0 - g))

\* printf's %f: the value rounded to six decimals, in units of 10^-6
FormatF(v) ==
  LET f1 == (v % One) * 100
      f2 == (f1 % One) * 100
      f3 == (f2 % One) * 100
  IN  (v \div One) * 1000000 + (f1 \div One) * 10000 + (f2 \div One) * 100
        + (f3 \div One) + (IF 2 * (f3 % One) >= One THEN 1 ELSE 0)

----------------------------------------------------------------------------
(* Buffers of main *)

\* static_cast<float>(i * INPUT_DIM + j + 1) / (INTER_DIM * INPUT_DIM)
W1Entry_integer_division(i, j) ==
  ((i * input_dim + j + 1) \div (inter_dim * input_dim)) * One

W1Entry(i, j) == DivFx(i * input_dim + j + 1, inter_dim * input_dim)

\* static_cast<float>(i * INTER_DIM + j + 1) / (OUTPUT_DIM * INTER_DIM)
W2Entry(i, j) == DivFx(i * inter_dim + j + 1, output_dim * inter_dim)

w1_weight_data ==
  [k \in 1..(inter_dim * input_dim) |->
     W1Entry((k - 1) \div input_dim, (k - 1) % input_dim)]

w2_weight_data ==
  [k \in 1..(output_dim * inter_dim) |->
     W2Entry((k - 1) \div inter_dim, (k - 1) % inter_dim)]

\* float input_data[BATCH_SIZE * INPUT_DIM] = { 1.0f, 2.0f, 3.0f };
\* elements past the third initializer are zero
input_data ==
  [k \in 1..(batch_size * input_dim) |-> IF k <= 3 THEN k * One ELSE 0]

Buffer(name) ==
  CASE name = "w1_weight_data" -> w1_weight_data
    [] name = "w2_weight_data" -> w2_weight_data
    [] name = "input_data"     -> input_data
    [] OTHER                   -> <<>>

----------------------------------------------------------------------------
(* The engine: subgraph values and nodes, shape inference, execution *)

\* f with key k (re)bound to v
Extend(f, k, v) == [x \in (DOMAIN f) \cup {k} |-> IF x = k THEN v ELSE f[x]]

EmptyMap == [x \in {} |-> 0]

\* shape a node gives its output, from the shapes sh of its inputs
NodeOutputShape(n, sh) ==
  IF n.type = "fully_connected"
    THEN <<sh[n.inputs[1]][1], sh[n.inputs[2]][1]>>
    ELSE sh[n.inputs[1]]

\* a node accepts the shapes sh of its inputs
NodeShapeOk(n, sh) ==
  /\ \A k \in 1..Len(n.inputs) : n.inputs[k] \in DOMAIN sh
  /\ CASE n.type = "fully_connected" ->
            /\ Len(sh[n.inputs[1]]) = 2 /\ Len(sh[n.inputs[2]]) = 2
            /\ sh[n.inputs[1]][2] = sh[n.inputs[2]][2]
       [] n.type = "multiply2" -> sh[n.inputs[1]] = sh[n.inputs[2]]
       [] OTHER -> TRUE

RECURSIVE InferShapes(_, _)
\* shapes after propagating sh through the nodes ns in order
InferShapes(ns, sh) ==
  IF ns = <<>> THEN sh
  ELSE LET n == Head(ns)
       IN  IF NodeShapeOk(n, sh)
             THEN InferShapes(Tail(ns), Extend(sh, n.output, NodeOutputShape(n, sh)))
             ELSE sh

RECURSIVE ShapesOk(_, _)
ShapesOk(ns, sh) ==
  \/ ns = <<>>
  \/ /\ NodeShapeOk(Head(ns), sh)
     /\ ShapesOk(Tail(ns), Extend(sh, Head(ns).output, NodeOutputShape(Head(ns), sh)))

RECURSIVE Dot(_, _, _, _, _)
\* sum over k in 1..n of x[xo + k] * w[wo + k]
Dot(x, w, xo, wo, n) ==
  IF n = 0 THEN 0
  ELSE Dot(x, w, xo, wo, n - 1) + MulFx(x[xo + n], w[wo + n])

\* y[b][o] = sum_k x[b][k] * w[o][k], all row-major
FullyConnected(x, w, xs, ws) ==
  [m \in 1..(xs[1] * ws[1]) |->
     Dot(x, w, ((m - 1) \div ws[1]) * xs[2], ((m - 1) % ws[1]) * ws[2], xs[2])]

\* tensor a node computes from the tensors env of its inputs
NodeResult(n, env, sh) ==
  CASE n.type = "fully_connected" ->
         FullyConnected(env[n.inputs[1]], env[n.inputs[2]],
                        sh[n.inputs[1]], sh[n.inputs[2]])
    [] n.type = "sigmoid" ->
         [m \in 1..Len(env[n.inputs[1]]) |-> Sigmoid(env[n.inputs[1]][m])]
    [] n.type = "multiply2" ->
         [m \in 1..Len(env[n.inputs[1]]) |->
            MulFx(env[n.inputs[1]][m], env[n.inputs[2]][m])]

RECURSIVE RunNodes(_, _, _)
\* tensors after executing the nodes ns in order
RunNodes(ns, env, sh) ==
  IF ns = <<>> THEN env
  ELSE RunNodes(Tail(ns), Extend(env, Head(ns).output, NodeResult(Head(ns), env, sh)), sh)

\* tensors of the runtime before execution: weights and the bound input
InitialTensors ==
  [id \in DOMAIN values |->
     IF values[id].data # "nullptr" THEN Buffer(values[id].data)
     ELSE IF values[id].flags = XNN_VALUE_FLAG_EXTERNAL_INPUT /\ id \in bound
            THEN Buffer("input_data")
            ELSE <<>>]

----------------------------------------------------------------------------
(* Shapes and operators declared by main *)

input_dims                     == <<1, input_dim>>
output_dims                    == <<1, output_dim>>
w1_weight_dims                 == <<inter_dim, input_dim>>
gate_dims                      == <<1, inter_dim>>
w3_weight_dims                 == <<inter_dim, input_dim>>
up_output_dims                 == <<1, inter_dim>>
sigmoid_output_dims            == <<1, inter_dim>>
silu_output_dims               == <<1, inter_dim>>
gated_intermediate_output_dims == <<1, inter_dim>>

w2_weight_dims_transposed      == <<inter_dim, output_dim>>

w2_weight_dims                 == <<output_dim, inter_dim>>

\* the shapes passed to xnn_reshape_external_value
reshape_input_dims             == <<batch_size, input_dim>>
reshape_output_dims            == <<batch_size, output_dim>>

GateProjection ==
  [type |-> "fully_connected", inputs |-> <<"input_id", "w1_weight_id">>,
   output |-> "gate_output_id"]

UpProjection ==
  [type |-> "fully_connected", inputs |-> <<"input_id", "w3_weight_id">>,
   output |-> "up_output_id"]

SigmoidOp ==
  [type |-> "sigmoid", inputs |-> <<"gate_output_id">>,
   output |-> "sigmoid_output_id"]

SiluMultiply_writes_gate ==
  [type |-> "multiply2", inputs |-> <<"gate_output_id", "sigmoid_output_id">>,
   output |-> "gate_output_id"]

SiluMultiply ==
  [type |-> "multiply2", inputs |-> <<"gate_output_id", "sigmoid_output_id">>,
   output |-> "silu_output_id"]

GatedMultiply ==
  [type |-> "multiply2", inputs |-> <<"silu_output_id", "up_output_id">>,
   output |-> "gated_intermediate_output_id"]

DownProjection ==
  [type |-> "fully_connected",
   inputs |-> <<"gated_intermediate_output_id", "w2_weight_id">>,
   output |-> "output_id"]

----------------------------------------------------------------------------
(* Steps of main *)

handleVars == <<initialized, subgraph, xnn_workspace, runtime>>
graphVars  == <<num_values, values, nodes, ids>>
runVars    == <<shape, ext_dims, planned, bound, output_data>>

\* a statement that cannot fail: go on, `return 0` after the last one
Advance(site) ==
  /\ pc' = Succ(site)
  /\ exit_code' = IF Succ(site) = "exit" THEN 0 ELSE exit_code

\* if (xnn_initialize(NULL) != xnn_status_success) { ...; return 1; }
Initialize ==
  /\ pc = "initialize"
  /\ \E st \in Statuses :
       /\ initialized' = (st = xnn_status_success)
       /\ calls' = Append(calls, [fn |-> "xnn_initialize", site |-> "initialize", st |-> st])
       /\ CheckStatus(InitDiagnostic, st, Succ("initialize"))
  /\ UNCHANGED <<status, stdout, subgraph, xnn_workspace, runtime>>
  /\ UNCHANGED <<graphVars, runVars, dimVars>>

\* status = xnn_create_subgraph(/*external_value_ids=*/2, 0, &subgraph);
CreateSubgraph ==
  /\ pc = "create_subgraph"
  /\ \E st \in Statuses :
       /\ IF st = xnn_status_success
            THEN subgraph' = "live" /\ num_values' = 2
            ELSE UNCHANGED <<subgraph, num_values>>
       /\ Returned("create_subgraph", "xnn_create_subgraph", st)
  /\ UNCHANGED <<stdout, initialized, xnn_workspace, runtime, values, nodes, ids>>
  /\ UNCHANGED <<runVars, dimVars>>

\* status = xnn_define_tensor_value(subgraph, fp32, dims, data, external_id, flags, &idvar);
DefineTensorValue(site, dims, data, external_id, flags, idvar) ==
  /\ pc = site
  /\ \E st \in Statuses :
       /\ IF st = xnn_status_success
            THEN LET id == IF external_id # XNN_INVALID_VALUE_ID
                             THEN external_id ELSE num_values
                 IN  /\ values' = Extend(values, id,
                                    [dims |-> dims, data |-> data,
                                     external_id |-> external_id, flags |-> flags])
                     /\ num_values' = IF external_id # XNN_INVALID_VALUE_ID
                                        THEN num_values ELSE num_values + 1
                     /\ ids' = [ids EXCEPT ![idvar] = id]
            ELSE UNCHANGED <<values, num_values, ids>>
       /\ Returned(site, "xnn_define_tensor_value", st)
  /\ UNCHANGED <<stdout, handleVars, nodes, runVars, dimVars>>

\* status = xnn_define_fully_connected / xnn_define_unary / xnn_define_multiply2 (...)
DefineNode(site, fn, op) ==
  /\ pc = site
  /\ \E st \in Statuses :
       /\ nodes' = IF st = xnn_status_success
                     THEN Append(nodes,
                            [type |-> op.type,
                             inputs |-> [k \in 1..Len(op.inputs) |-> ids[op.inputs[k]]],
                             output |-> ids[op.output]])
                     ELSE nodes
       /\ Returned(site, fn, st)
  /\ UNCHANGED <<stdout, handleVars, num_values, values, ids, runVars, dimVars>>

DefineInput ==
  DefineTensorValue("define_input", input_dims, "nullptr", 0,
                    XNN_VALUE_FLAG_EXTERNAL_INPUT, "input_id")
DefineOutput ==
  DefineTensorValue("define_output", output_dims, "nullptr", 1,
                    XNN_VALUE_FLAG_EXTERNAL_OUTPUT, "output_id")
DefineW1Weight ==
  DefineTensorValue("define_w1_weight", w1_weight_dims, "w1_weight_data",
                    XNN_INVALID_VALUE_ID, NoFlags, "w1_weight_id")
DefineGateOutput ==
  DefineTensorValue("define_gate_output", gate_dims, "nullptr",
                    XNN_INVALID_VALUE_ID, NoFlags, "gate_output_id")
DefineGateFC ==
  DefineNode("define_gate_fc", "xnn_define_fully_connected", GateProjection)
DefineW3Weight ==
  DefineTensorValue("define_w3_weight", w3_weight_dims, "w1_weight_data",
                    XNN_INVALID_VALUE_ID, NoFlags, "w3_weight_id")
DefineUpOutput ==
  DefineTensorValue("define_up_output", up_output_dims, "nullptr",
                    XNN_INVALID_VALUE_ID, NoFlags, "up_output_id")
DefineUpFC ==
  DefineNode("define_up_fc", "xnn_define_fully_connected", UpProjection)
DefineSigmoidOutput ==
  DefineTensorValue("define_sigmoid_output", sigmoid_output_dims, "nullptr",
                    XNN_INVALID_VALUE_ID, NoFlags, "sigmoid_output_id")
DefineSigmoid ==
  DefineNode("define_sigmoid", "xnn_define_unary", SigmoidOp)
DefineSiluOutput ==
  DefineTensorValue("define_silu_output", silu_output_dims, "nullptr",
                    XNN_INVALID_VALUE_ID, NoFlags, "silu_output_id")
DefineSiluMul ==
  DefineNode("define_silu_mul", "xnn_define_multiply2", SiluMultiply)
DefineGatedOutput ==
  DefineTensorValue("define_gated_output", gated_intermediate_output_dims, "nullptr",
                    XNN_INVALID_VALUE_ID, NoFlags, "gated_intermediate_output_id")
DefineGatedMul ==
  DefineNode("define_gated_mul", "xnn_define_multiply2", GatedMultiply)
DefineW2Weight ==
  DefineTensorValue("define_w2_weight", w2_weight_dims, "w2_weight_data",
                    XNN_INVALID_VALUE_ID, NoFlags, "w2_weight_id")
DefineDownFC ==
  DefineNode("define_down_fc", "xnn_define_fully_connected", DownProjection)


\* status = xnn_create_workspace(&xnn_workspace);
CreateWorkspace ==
  /\ pc = "create_workspace"
  /\ \E st \in Statuses :
       /\ xnn_workspace' = IF st = xnn_status_success THEN "live" ELSE xnn_workspace
       /\ Returned("create_workspace", "xnn_create_workspace", st)
  /\ UNCHANGED <<stdout, initialized, subgraph, runtime>>
  /\ UNCHANGED <<graphVars, runVars, dimVars>>

\* status = xnn_create_runtime_v4(subgraph, nullptr, xnn_workspace, NULL, 0, &runtime);
CreateRuntime ==
  /\ pc = "create_runtime"
  /\ \E st \in Statuses :
       /\ IF st = xnn_status_success
            THEN /\ runtime' = "live"
                 /\ shape' = [id \in DOMAIN values |-> values[id].dims]
            ELSE UNCHANGED <<runtime, shape>>
       /\ Returned("create_runtime", "xnn_create_runtime_v4", st)
  /\ UNCHANGED <<stdout, initialized, subgraph, xnn_workspace>>
  /\ UNCHANGED <<graphVars, ext_dims, planned, bound, output_data, dimVars>>

\* status = xnn_reshape_external_value(runtime, external_id, dims.size(), dims.data());
ReshapeExternalValue(site, external_id, dims) ==
  /\ pc = site
  /\ \E st \in Statuses :
       /\ IF st = xnn_status_success
            THEN /\ shape' = Extend(shape, external_id, dims)
                 /\ ext_dims' = Extend(ext_dims, external_id, dims)
                 /\ planned' = FALSE
            ELSE UNCHANGED <<shape, ext_dims, planned>>
       /\ Returned(site, "xnn_reshape_external_value", st)
  /\ UNCHANGED <<stdout, handleVars, graphVars, bound, output_data, dimVars>>

ReshapeInput  == ReshapeExternalValue("reshape_input", 0, reshape_input_dims)
ReshapeOutput == ReshapeExternalValue("reshape_output", 1, reshape_output_dims)

\* status = xnn_reshape_runtime(runtime);
ReshapeRuntime ==
  /\ pc = "reshape_runtime"
  /\ \E st \in (IF ShapesOk(nodes, shape) THEN Statuses ELSE FailureStatuses) :
       /\ IF st = xnn_status_success
            THEN shape' = InferShapes(nodes, shape) /\ planned' = TRUE
            ELSE UNCHANGED <<shape, planned>>
       /\ Returned("reshape_runtime", "xnn_reshape_runtime", st)
  /\ UNCHANGED <<stdout, handleVars, graphVars, ext_dims, bound, output_data, dimVars>>

\* external_values[0] = {0, input_data}; external_values[1] = {1, output_data};
\* status = xnn_setup_runtime_v2(runtime, external_values.size(), external_values.data());
SetupRuntime ==
  /\ pc = "setup_runtime"
  /\ \E st \in Statuses :
       /\ bound' = IF st = xnn_status_success THEN {0, 1} ELSE bound
       /\ Returned("setup_runtime", "xnn_setup_runtime_v2", st)
  /\ UNCHANGED <<stdout, handleVars, graphVars, shape, ext_dims, planned, output_data, dimVars>>

\* the runtime can execute: it exists, is planned and has both externals bound
Runnable == runtime = "live" /\ planned /\ bound = {0, 1}

\* status = xnn_invoke_runtime(runtime);  writes the buffer bound to external id 1
InvokeRuntime ==
  /\ pc = "invoke_runtime"
  /\ \E st \in (IF Runnable THEN Statuses ELSE FailureStatuses) :
       /\ output_data' = IF st = xnn_status_success
                           THEN RunNodes(nodes, InitialTensors, shape)[1]
                           ELSE output_data
       /\ Returned("invoke_runtime", "xnn_invoke_runtime", st)
  /\ UNCHANGED <<stdout, handleVars, graphVars, shape, ext_dims, planned, bound, dimVars>>

\* values output_data[k - 1] can read: the element, or anything when the
\* index is outside the array
Element(k) == IF k \in DOMAIN output_data THEN {output_data[k]} ELSE {0, One}

\* printf("Output: [%f, %f]\n", output_data[0], output_data[1]);
PrintOutput ==
  /\ pc = "print_output"
  /\ \E v0 \in Element(1), v1 \in Element(2) :
       stdout' = Append(stdout, [words |-> <<"Output:", "[%f,", "%f]">>,
                                 args |-> <<FormatF(v0), FormatF(v1)>>])
  /\ Advance("print_output")
  /\ UNCHANGED <<status, stderr, calls, handleVars, graphVars, runVars, dimVars>>

\* a release call; its status is not looked at
Release(site, fn) ==
  /\ pc = site
  /\ calls' = Append(calls, [fn |-> fn, site |-> site, st |-> xnn_status_success])
  /\ Advance(site)
  /\ UNCHANGED <<status, stderr, stdout, graphVars, runVars, dimVars>>

\* xnn_delete_runtime(runtime);
DeleteRuntime ==
  /\ Release("delete_runtime", "xnn_delete_runtime")
  /\ runtime' = "deleted"
  /\ UNCHANGED <<initialized, subgraph, xnn_workspace>>

\* xnn_release_workspace(xnn_workspace);
ReleaseWorkspace ==
  /\ Release("release_workspace", "xnn_release_workspace")
  /\ xnn_workspace' = "released"
  /\ UNCHANGED <<initialized, subgraph, runtime>>

\* xnn_delete_subgraph(subgraph);
DeleteSubgraph ==
  /\ Release("delete_subgraph", "xnn_delete_subgraph")
  /\ subgraph' = "deleted"
  /\ UNCHANGED <<initialized, xnn_workspace, runtime>>

\* xnn_deinitialize(); return 0;
Deinitialize ==
  /\ Release("deinitialize", "xnn_deinitialize")
  /\ initialized' = FALSE
  /\ UNCHANGED <<subgraph, xnn_workspace, runtime>>

----------------------------------------------------------------------------
(* Specifications *)

InitState ==
  /\ pc = "initialize"
  /\ status = xnn_status_success
  /\ exit_code = Running
  /\ stderr = <<>>
  /\ stdout = <<>>
  /\ calls = <<>>
  /\ initialized = FALSE
  /\ subgraph = "NULL"
  /\ xnn_workspace = "uninit"
  /\ runtime = "uninit"
  /\ num_values = 0
  /\ values = EmptyMap
  /\ nodes = <<>>
  /\ ids = [v \in IdVars |-> NoId]
  /\ shape = EmptyMap
  /\ ext_dims = EmptyMap
  /\ planned = FALSE
  /\ bound = {}
  /\ output_data = <<>>

\* the program as written
Init ==
  /\ InitState
  /\ input_dim = INPUT_DIM
  /\ inter_dim = INTER_DIM
  /\ output_dim = OUTPUT_DIM
  /\ batch_size = BATCH_SIZE

\* the program for any choice of the four #define'd sizes
InitDims ==
  /\ InitState
  /\ input_dim \in 1..MaxDim
  /\ inter_dim \in 1..MaxDim
  /\ output_dim \in 1..MaxDim
  /\ batch_size \in 1..MaxDim

Next ==
  \/ Initialize
  \/ CreateSubgraph
  \/ DefineInput
  \/ DefineOutput
  \/ DefineW1Weight
  \/ DefineGateOutput
  \/ DefineGateFC
  \/ DefineW3Weight
  \/ DefineUpOutput
  \/ DefineUpFC
  \/ DefineSigmoidOutput
  \/ DefineSigmoid
  \/ DefineSiluOutput
  \/ DefineSiluMul
  \/ DefineGatedOutput
  \/ DefineGatedMul
  \/ DefineW2Weight
  \/ DefineDownFC
  \/ CreateWorkspace
  \/ CreateRuntime
  \/ ReshapeInput
  \/ ReshapeOutput
  \/ ReshapeRuntime
  \/ SetupRuntime
  \/ InvokeRuntime
  \/ PrintOutput
  \/ DeleteRuntime
  \/ ReleaseWorkspace
  \/ DeleteSubgraph
  \/ Deinitialize

Spec == Init /\ [][Next]_vars

SpecDims == InitDims /\ [][Next]_vars

----------------------------------------------------------------------------
(* Reading the call log *)

CallIndexes == 1..Len(calls)

\* position of the call made at `site`, 0 when it was not made
Pos(site) ==
  IF \E k \in CallIndexes : calls[k].site = site
    THEN CHOOSE k \in CallIndexes : calls[k].site = site
    ELSE 0

Succeeded(site) ==
  \E k \in CallIndexes : calls[k].site = site /\ calls[k].st = xnn_status_success

Failed(site) ==
  \E k \in CallIndexes : calls[k].site = site /\ calls[k].st # xnn_status_success

CountFn(fn) == Cardinality({k \in CallIndexes : calls[k].fn = fn})

AllSucceeded == \A k \in CallIndexes : calls[k].st = xnn_status_success

DefineSites ==
  {"define_input", "define_output", "define_w1_weight", "define_gate_output",
   "define_gate_fc", "define_w3_weight", "define_up_output", "define_up_fc",
   "define_sigmoid_output", "define_sigmoid", "define_silu_output",
   "define_silu_mul", "define_gated_output", "define_gated_mul",
   "define_w2_weight", "define_down_fc"}

\* a successful call of create is followed by a call of release
Matched(create, release) ==
  \A k \in CallIndexes :
    (calls[k].fn = create /\ calls[k].st = xnn_status_success)
      => \E m \in CallIndexes : m > k /\ calls[m].fn = release

----------------------------------------------------------------------------
(* Claims *)

\* C1: when main has returned, on any path, every resource whose creation
\* call succeeded (subgraph, workspace, runtime) has had its release call.
C1_EveryCreatedResourceReleased ==
  pc = "exit" =>
    /\ Matched("xnn_create_subgraph", "xnn_delete_subgraph")
    /\ Matched("xnn_create_workspace", "xnn_release_workspace")
    /\ Matched("xnn_create_runtime_v4", "xnn_delete_runtime")

\* C2: acquisition is initialize, subgraph, workspace, runtime; release is
\* runtime, workspace, subgraph, deinitialize; the subgraph is never deleted
\* and the workspace never released while the runtime exists, and
\* xnn_deinitialize is never called before all three are released.
C2_ReverseOrderTeardown ==
  /\ (subgraph = "deleted" \/ xnn_workspace = "released") => runtime # "live"
  /\ subgraph = "deleted" => xnn_workspace # "live"
  /\ Pos("create_subgraph") > 0 => Pos("initialize") \in 1..(Pos("create_subgraph") - 1)
  /\ Pos("create_workspace") > 0 => Pos("create_subgraph") \in 1..(Pos("create_workspace") - 1)
  /\ Pos("create_runtime") > 0 => Pos("create_workspace") \in 1..(Pos("create_runtime") - 1)
  /\ Pos("release_workspace") > 0 => Pos("delete_runtime") \in 1..(Pos("release_workspace") - 1)
  /\ Pos("delete_subgraph") > 0 => Pos("release_workspace") \in 1..(Pos("delete_subgraph") - 1)
  /\ Pos("deinitialize") > 0 =>
       /\ Pos("delete_subgraph") \in 1..(Pos("deinitialize") - 1)
       /\ runtime = "deleted" /\ xnn_workspace = "released" /\ subgraph = "deleted"

C2_Witness ==
  /\ pc = "exit" /\ exit_code = 0
  /\ Pos("deinitialize") > 0
  /\ runtime = "deleted" /\ xnn_workspace = "released" /\ subgraph = "deleted"

\* C3: a call that returns a status other than success is the last call main
\* makes, main then returns 1, no call site is executed twice, and
\* xnn_create_runtime_v4 is called only after all 16 definitions succeeded.
C3_FailureStopsMain ==
  /\ \A k \in CallIndexes :
       calls[k].st # xnn_status_success =>
         k = Len(calls) /\ pc = "exit" /\ exit_code = 1
  /\ \A k, m \in CallIndexes : calls[k].site = calls[m].site => k = m
  /\ Pos("create_runtime") > 0 =>
       /\ \A d \in DefineSites : Succeeded(d) /\ Pos(d) < Pos("create_runtime")
       /\ Len(nodes) = 6
       /\ Cardinality(DOMAIN values) = 10

C3_Witness ==
  /\ pc = "exit" /\ exit_code = 1
  /\ Failed("define_gated_mul")
  /\ Len(nodes) = 4

LastCall == calls[Len(calls)]

NamesCall(msg, fn) == \E w \in 1..Len(msg.words) : msg.words[w] = fn

CarriesStatus(msg, st) == \E a \in 1..Len(msg.args) : msg.args[a] = st

\* C4 as stated: after a failure at any stage, xnn_initialize included, main
\* returns 1 and the one diagnostic names the failing call and carries its
\* status code; main returns 0 only when every stage succeeded.
C4_DiagnosticNamesCallAndStatus ==
  pc = "exit" =>
    /\ exit_code \in {0, 1}
    /\ exit_code = 0 => AllSucceeded /\ stderr = <<>>
    /\ exit_code = 1 =>
         /\ LastCall.st # xnn_status_success
         /\ Len(stderr) = 1
         /\ NamesCall(stderr[1], LastCall.fn)
         /\ CarriesStatus(stderr[1], LastCall.st)

\* C4 amended: as above for every call but xnn_initialize; when
\* xnn_initialize fails the one diagnostic is the fixed text
\* "Failed to initialize XNNPACK", with no call name and no status code.
C4_DiagnosticExceptInitialize ==
  pc = "exit" =>
    /\ exit_code \in {0, 1}
    /\ exit_code = 0 => AllSucceeded /\ stderr = <<>>
    /\ exit_code = 1 =>
         /\ LastCall.st # xnn_status_success
         /\ Len(stderr) = 1
         /\ LastCall.fn # "xnn_initialize" =>
              /\ NamesCall(stderr[1], LastCall.fn)
              /\ CarriesStatus(stderr[1], LastCall.st)
         /\ LastCall.fn = "xnn_initialize" =>
              /\ stderr[1].words = <<"Failed", "to", "initialize", "XNNPACK">>
              /\ stderr[1].args = <<>>

C4_Witness ==
  /\ pc = "exit" /\ exit_code = 1
  /\ LastCall.fn = "xnn_create_runtime_v4"
  /\ LastCall.st = 2
  /\ stderr = <<[words |-> <<"xnn_create_runtime_v4", "failed:", "%d">>, args |-> <<2>>]>>


\* C5: xnn_invoke_runtime is called only after xnn_create_runtime_v4
\* succeeded, then both external values (ids 0 and 1) were reshaped and
\* xnn_reshape_runtime succeeded, then xnn_setup_runtime_v2 bound both
\* external ids; the output is printed only after the invoke succeeded.
C5_InvokeAfterReshapeAndSetup ==
  /\ Pos("invoke_runtime") > 0 =>
       /\ Succeeded("create_runtime")
       /\ Succeeded("reshape_input") /\ Succeeded("reshape_output")
       /\ Succeeded("reshape_runtime") /\ Succeeded("setup_runtime")
       /\ Pos("create_runtime") < Pos("reshape_input")
       /\ Pos("create_runtime") < Pos("reshape_output")
       /\ Pos("reshape_input") < Pos("reshape_runtime")
       /\ Pos("reshape_output") < Pos("reshape_runtime")
       /\ Pos("reshape_runtime") < Pos("setup_runtime")
       /\ Pos("setup_runtime") < Pos("invoke_runtime")
       /\ DOMAIN ext_dims = {0, 1}
       /\ planned
       /\ bound = {0, 1}
  /\ stdout # <<>> => Succeeded("invoke_runtime")

C5_Witness ==
  /\ Succeeded("invoke_runtime")
  /\ Len(stdout) = 1
  /\ bound = {0, 1}

Abs(x) == IF x < 0 THEN 0 - x ELSE x

\* C6: with input [1,2,3], input_dim 3, inter_dim 4, output_dim 2 and the
\* weights main fills in, the two printed values are 24.203243 and
\* 52.594986 to within 1e-4 (printed values are in units of 1e-6).
C6_ExpectedOutput ==
  stdout # <<>> =>
    /\ Abs(stdout[1].args[1] - 24203243) <= 100
    /\ Abs(stdout[1].args[2] - 52594986) <= 100

C6_Witness ==
  /\ stdout # <<>>
  /\ Len(output_data) = 2
  /\ input_dim = 3 /\ inter_dim = 4 /\ output_dim = 2 /\ batch_size = 1

\* C7: standard output holds exactly one line, "Output: [<v0>, <v1>]", if
\* and only if every stage up to and including xnn_invoke_runtime
\* succeeded; a run in which a call failed has written nothing to it.
C7_OneOutputLineIffSuccess ==
  /\ Len(stdout) <= 1
  /\ \A k \in 1..Len(stdout) :
       stdout[k].words = <<"Output:", "[%f,", "%f]">> /\ Len(stdout[k].args) = 2
  /\ ~AllSucceeded => stdout = <<>>
  /\ pc = "exit" => (Len(stdout) = 1 <=> (Succeeded("invoke_runtime") /\ AllSucceeded))

C7_Witness ==
  /\ pc = "exit"
  /\ Len(stdout) = 1
  /\ Succeeded("invoke_runtime")

\* the release call fn is made at most once, and only after create succeeded
ReleasedOnceAfter(create, fn) ==
  /\ CountFn(fn) <= 1
  /\ \A m \in CallIndexes :
       calls[m].fn = fn =>
         \E k \in 1..(m - 1) : calls[k].fn = create /\ calls[k].st = xnn_status_success

\* C8: xnn_delete_runtime, xnn_release_workspace and xnn_delete_subgraph are
\* each called at most once, and only after the matching create call
\* returned success; no unset handle is handed to a release call.
C8_ReleaseOnlyCreatedOnce ==
  /\ ReleasedOnceAfter("xnn_create_runtime_v4", "xnn_delete_runtime")
  /\ ReleasedOnceAfter("xnn_create_workspace", "xnn_release_workspace")
  /\ ReleasedOnceAfter("xnn_create_subgraph", "xnn_delete_subgraph")
  /\ pc = "delete_runtime" => runtime = "live"
  /\ pc = "release_workspace" => xnn_workspace = "live"
  /\ pc = "delete_subgraph" => subgraph = "live"

C8_Witness ==
  /\ CountFn("xnn_delete_runtime") = 1
  /\ CountFn("xnn_release_workspace") = 1
  /\ CountFn("xnn_delete_subgraph") = 1

----------------------------------------------------------------------------
(* Structure of the graph *)

NodeIndexes == 1..Len(nodes)

InputsOf(k) == {nodes[k].inputs[i] : i \in 1..Len(nodes[k].inputs)}

\* values produced by a node that reads a value of S
Consumers(S) == {nodes[k].output : k \in {j \in NodeIndexes : InputsOf(j) \cap S # {}}}

RECURSIVE Closure(_, _)
Closure(S, n) == IF n = 0 THEN S ELSE Closure(S \cup Consumers(S), n - 1)

\* values computed, directly or not, from v
Descendants(v) == Closure(Consumers({v}), Len(nodes))

Producers(v) == {k \in NodeIndexes : nodes[k].output = v}

Acyclic == \A v \in DOMAIN values : v \notin Descendants(v)

Node(type, inputs, output) ==
  [type |-> type, inputs |-> [k \in 1..Len(inputs) |-> ids[inputs[k]]],
   output |-> ids[output]]

\* C9: the graph handed to xnn_create_runtime_v4 is gate = FC(input, W1),
\* up = FC(input, W3), sig = sigmoid(gate), silu = gate * sig,
\* gated = silu * up, output = FC(gated, W2); it is acyclic, operators read
\* only values already defined, gate, up, sig, silu, gated and output have
\* exactly one producer, and the input and the weights have none.
C9_GraphIsSwiGLUDag ==
  /\ \A k \in NodeIndexes : InputsOf(k) \cup {nodes[k].output} \subseteq DOMAIN values
  /\ Acyclic
  /\ Pos("create_runtime") > 0 =>
       /\ Cardinality({ids[v] : v \in IdVars}) = 10
       /\ {ids[v] : v \in IdVars} = DOMAIN values
       /\ nodes = <<Node("fully_connected", <<"input_id", "w1_weight_id">>, "gate_output_id"),
                    Node("fully_connected", <<"input_id", "w3_weight_id">>, "up_output_id"),
                    Node("sigmoid", <<"gate_output_id">>, "sigmoid_output_id"),
                    Node("multiply2", <<"gate_output_id", "sigmoid_output_id">>, "silu_output_id"),
                    Node("multiply2", <<"silu_output_id", "up_output_id">>,
                         "gated_intermediate_output_id"),
                    Node("fully_connected", <<"gated_intermediate_output_id", "w2_weight_id">>,
                         "output_id")>>
       /\ \A v \in {"gate_output_id", "up_output_id", "sigmoid_output_id", "silu_output_id",
                    "gated_intermediate_output_id", "output_id"} :
            Cardinality(Producers(ids[v])) = 1
       /\ \A v \in {"input_id", "w1_weight_id", "w3_weight_id", "w2_weight_id"} :
            Producers(ids[v]) = {}
       /\ values[ids["input_id"]].flags = XNN_VALUE_FLAG_EXTERNAL_INPUT
       /\ values[ids["output_id"]].flags = XNN_VALUE_FLAG_EXTERNAL_OUTPUT
       /\ values[ids["w1_weight_id"]].data = "w1_weight_data"
       /\ values[ids["w3_weight_id"]].data = "w1_weight_data"
       /\ values[ids["w2_weight_id"]].data = "w2_weight_data"

C9_Witness ==
  /\ Succeeded("create_runtime")
  /\ Len(nodes) = 6
  /\ Descendants(ids["input_id"]) = {ids["gate_output_id"], ids["up_output_id"],
       ids["sigmoid_output_id"], ids["silu_output_id"],
       ids["gated_intermediate_output_id"], ids["output_id"]}

\* shapes sh are consistent along the graph for batch b
ShapesConsistent(sh, b) ==
  /\ sh[ids["input_id"]] = <<b, input_dim>>
  /\ sh[ids["w1_weight_id"]] = <<inter_dim, input_dim>>
  /\ sh[ids["w3_weight_id"]] = <<inter_dim, input_dim>>
  /\ sh[ids["w2_weight_id"]] = <<output_dim, inter_dim>>
  /\ \A k \in NodeIndexes :
       /\ nodes[k].type = "fully_connected" =>
            /\ sh[nodes[k].inputs[2]][2] = sh[nodes[k].inputs[1]][Len(sh[nodes[k].inputs[1]])]
            /\ sh[nodes[k].output] = <<b, sh[nodes[k].inputs[2]][1]>>
       /\ nodes[k].type = "multiply2" =>
            /\ sh[nodes[k].inputs[1]] = <<b, inter_dim>>
            /\ sh[nodes[k].inputs[2]] = <<b, inter_dim>>
            /\ sh[nodes[k].output] = <<b, inter_dim>>
       /\ nodes[k].type = "sigmoid" =>
            /\ sh[nodes[k].inputs[1]] = <<b, inter_dim>>
            /\ sh[nodes[k].output] = <<b, inter_dim>>
  /\ sh[ids["output_id"]] = <<b, output_dim>>

\* C10: for any positive input_dim, inter_dim, output_dim and batch, the
\* shapes declared to the engine are consistent through the graph (weights
\* [out, in] with `in` the last dimension of the operator's input, equal
\* operand shapes for the element-wise operators), and after the reshape the
\* output has shape [batch, output_dim], the shape declared for external id 1.
C10_ShapesConsistent ==
  /\ Pos("create_runtime") > 0 =>
       ShapesConsistent([id \in DOMAIN values |-> values[id].dims], 1)
  /\ planned =>
       /\ ShapesConsistent(shape, batch_size)
       /\ shape[1] = ext_dims[1]
       /\ ext_dims[0] = <<batch_size, input_dim>>
  /\ Succeeded("invoke_runtime") => Len(output_data) = batch_size * output_dim

C10_Witness ==
  /\ Succeeded("invoke_runtime")
  /\ batch_size = 2 /\ input_dim = 2 /\ inter_dim = 3 /\ output_dim = 1
  /\ shape[1] = <<2, 1>>
  /\ Len(output_data) = 2

====
